---- MODULE Spec2Model ----
(***************************************************************************)
(* Kanban backend (src/backend/server.js): the users and tasks tables, the *)
(* bearer-token middleware and the nine HTTP routes, one action per route. *)
(* Time is counted in hours.  A JSON body is a record that has exactly the *)
(* keys the client sent; a title is a tuple of characters so that trim()   *)
(* is computed; a date field is the text the client sent.  UpdateTask is a  *)
(* PUT whose two queries run back to back; UpdateSelect and UpdateWrite    *)
(* are the two halves of a PUT that other requests run between, inflight   *)
(* holding the requests that are past the SELECT and before the UPDATE.    *)
(* The variable client is the React App (src/frontend/src/App.js): its     *)
(* state, its intervals and the API calls it awaits; authenticateToken of  *)
(* the ES module variant of the backend is authenticateToken_part000.      *)
(***************************************************************************)
EXTENDS Integers, Sequences, FiniteSets, TLC

VARIABLES users, tasks, userSeq, taskSeq, now, req, res, inflight, client

vars == <<users, tasks, userSeq, taskSeq, now, req, res, inflight, client>>

\* ---------------------------------------------------------------- bounds
\* tasks ever created under Spec, SpecInput, SpecGate, SpecClock, SpecEdit,
\* SpecRace, SpecNotify, SpecSession and SpecSync
MaxTasks == 2
MaxInputTasks == 1
MaxGateTasks == 1
MaxClockTasks == 2
MaxEditTasks == 1
MaxRaceTasks == 1
MaxNotifyTasks == 1
MaxSessionTasks == 1
MaxSyncTasks == 1
\* PUT requests that may be between their SELECT and their UPDATE at once
MaxInFlight == 2
\* API calls of the client that may await their response at once
MaxCalls == 2
\* notifications the client accumulates
MaxNotifications == 2
\* hours the clock runs
MaxTime == 1

\* ------------------------------------------------------------- constants
\* jwt.sign(..., { expiresIn: '1h' })
TokenTTL == 1
\* NOW() + INTERVAL '24 hours'
DueSoonHours == 24
\* SQL NULL / JS null in a date column
NULL == -1
\* the time value of an Invalid Date (isNaN(getTime()))
NaN == -2

Emails == {"a@x", "b@x"}
Passwords == {"pw1", "pw2"}

\* ------------------------------------------------------------ JS helpers
Has(b, k) == k \in DOMAIN b

\* !b[k] for a string field: undefined or ""
FalsyStr(b, k) == ~Has(b, k) \/ b[k] = ""

\* b[k] || dflt
OrElse(b, k, dflt) == IF FalsyStr(b, k) THEN dflt ELSE b[k]

RECURSIVE TrimStart(_)
TrimStart(s) == IF s # <<>> /\ Head(s) = " " THEN TrimStart(Tail(s)) ELSE s

RECURSIVE TrimEnd(_)
TrimEnd(s) ==
    IF s # <<>> /\ s[Len(s)] = " " THEN TrimEnd(SubSeq(s, 1, Len(s) - 1)) ELSE s

\* String.prototype.trim
Trim(s) == TrimEnd(TrimStart(s))

\* new Date(text).getTime(), in hours since the epoch
ParseDate(text) ==
    CASE text = "1970-01-01T00:00:00Z" -> 0
      [] text = "1970-01-01T01:00:00Z" -> 1
      [] text = "1970-01-02T01:00:00Z" -> 25
      [] OTHER -> NaN

\* ---------------------------------------------------------------- bcrypt
\* bcrypt.hash(password, salt): a salted one-way digest, never the plaintext
BcryptHash(password, salt) == <<"$2a$10$", salt, password>>

\* bcrypt.compare(password, hash) for a string password
BcryptCompare(password, hash) == hash = BcryptHash(password, hash[2])

\* ------------------------------------------------------------------- JWT
JWT_SECRET == "votre-super-secret-long-et-complexe"

\* jwt.sign(payload, JWT_SECRET, { expiresIn: '1h' })
JwtSign(payload, secret, at) ==
    [id |-> payload.id, email |-> payload.email, exp |-> at + TokenTTL, key |-> secret]

\* JwtVerify without the expiry check
JwtVerify_NoExpiry(token, secret, at) == token.key = secret

\* jwt.verify(token, JWT_SECRET): the signature and the expiry
JwtVerify(token, secret, at) == token.key = secret /\ at < token.exp

\* An Authorization header: parts is what split(' ') yields (0 when the
\* header is absent); token is the second part, with key "" standing for the
\* empty string (no JWT at all).
NoToken == [id |-> 0, email |-> "", exp |-> 0, key |-> ""]
HeaderAbsent == [parts |-> 0, token |-> NoToken]
HeaderSchemeOnly == [parts |-> 1, token |-> NoToken]
HeaderEmptyToken == [parts |-> 2, token |-> NoToken]
Bearer(t) == [parts |-> 2, token |-> t]

\* The tokens a client can hold were signed by login for a stored user at
\* some instant up to now (live when signed within the last TokenTTL hours,
\* stale otherwise), or were signed with another key.
Payload(u) == [id |-> u.id, email |-> u.email]
LiveHeaders == { Bearer(JwtSign(Payload(u), JWT_SECRET, now)) : u \in users }
StaleHeaders ==
    { Bearer(JwtSign(Payload(u), JWT_SECRET, at)) :
        u \in users, at \in 0..(now - TokenTTL) }
ForgedHeaders == { Bearer(JwtSign(Payload(u), "autre-secret", now)) : u \in users }
BadHeaders ==
    {HeaderAbsent, HeaderSchemeOnly, HeaderEmptyToken} \cup StaleHeaders \cup ForgedHeaders
Headers == LiveHeaders \cup BadHeaders

\* authenticateToken: 401, 403 or 0 (next() with req.user = the payload)
authenticateToken(h) ==
    IF h.parts < 2 THEN 401
    ELSE IF ~JwtVerify(h.token, JWT_SECRET, now) THEN 403
    ELSE 0

\* authenticateToken of the ES module variant of the backend: if (!token)
\* answers 401 for a missing and for an empty second part alike
authenticateToken_part000(h) ==
    IF h.parts < 2 \/ h.token = NoToken THEN 401
    ELSE IF ~JwtVerify(h.token, JWT_SECRET, now) THEN 403
    ELSE 0

\* req.user after next()
ReqUser(h) == [id |-> h.token.id, email |-> h.token.email]

\* ------------------------------------------------------------- responses
Response(code, msg) ==
    [code |-> code, msg |-> msg, rows |-> <<>>, user |-> <<>>, token |-> <<>>]

RowsResponse(code, rows) ==
    [code |-> code, msg |-> "", rows |-> rows, user |-> <<>>, token |-> <<>>]

Request(op, h, id, body) == [op |-> op, header |-> h, id |-> id, body |-> body]

NoBody == [none |-> TRUE]

\* --------------------------------------------------------- users table
\* bcrypt.genSalt(10)
Salts == {"salt1"}

\* users.email is UNIQUE: the INSERT throws when the email is already stored
EmailTaken(email) == \E u \in users : u.email = email

\* RegisterMissing checking the email alone
RegisterMissing_EmailOnly(body) == FalsyStr(body, "email")

\* if (!email || !password)
RegisterMissing(body) == FalsyStr(body, "email") \/ FalsyStr(body, "password")

\* bcrypt.hash rejects ("Illegal arguments") unless the password is a string
HashThrows(body) == ~Has(body, "password")

\* INSERT INTO users (email, password_hash) VALUES ($1, $2) RETURNING id, email
InsertUser(email, hash) == [id |-> userSeq + 1, email |-> email, password_hash |-> hash]

\* POST /api/auth/register: the response and the users table after it
RegisterHandler(body, salt) ==
    IF RegisterMissing(body)
    THEN [res |-> Response(400, "Email et mot de passe requis."), users |-> users]
    ELSE IF HashThrows(body) \/ EmailTaken(body.email)
    THEN [res |-> Response(500, "Erreur serveur ou l'email existe deja."),
          users |-> users]
    ELSE LET u == InsertUser(body.email, BcryptHash(body.password, salt))
         IN  [res |-> [code |-> 201, msg |-> "", rows |-> <<>>,
                       user |-> <<[id |-> u.id, email |-> u.email]>>, token |-> <<>>],
              users |-> users \cup {u}]

\* SELECT * FROM users WHERE email = $1
SelectUserByEmail(body) ==
    IF Has(body, "email") THEN { u \in users : u.email = body.email } ELSE {}

\* bcrypt.compare rejects ("Illegal arguments") unless the password is a string
CompareThrows(body) == ~Has(body, "password")

\* the credentials check of login, once the user row is found
LoginMatch(body, user) == BcryptCompare(body.password, user.password_hash)

\* POST /api/auth/login
LoginHandler(body) ==
    LET found == SelectUserByEmail(body) IN
    IF found = {}
    THEN Response(400, "Email ou mot de passe incorrect.")
    ELSE LET user == CHOOSE u \in found : TRUE IN
         IF CompareThrows(body) THEN Response(500, "Erreur serveur")
         ELSE IF ~LoginMatch(body, user)
         THEN Response(400, "Email ou mot de passe incorrect.")
         ELSE LET payload == [id |-> user.id, email |-> user.email]
              IN  [code |-> 200, msg |-> "", rows |-> <<>>, user |-> <<payload>>,
                   token |-> <<JwtSign(payload, JWT_SECRET, now)>>]

\* --------------------------------------------------------- tasks table
Statuses == {"todo", "in-progress", "done"}
Priorities == {"low", "medium", "high"}

\* res.sendStatus(code)
StatusText(code) == IF code = 401 THEN "Unauthorized" ELSE "Forbidden"

\* due_date || null, reminder_date || null: the text bound to a timestamp column
DateParam(body, k) == IF FalsyStr(body, k) THEN NULL ELSE ParseDate(body[k])

\* The INSERT throws on a NULL title (tasks.title is NOT NULL) and on a text
\* that is no timestamp.
InsertTaskThrows(body) ==
    \/ ~Has(body, "title")
    \/ DateParam(body, "due_date") = NaN
    \/ DateParam(body, "reminder_date") = NaN

\* NewTaskRow taking the status from the body when it carries one
NewTaskRow_BodyStatus(body, uid) ==
    [id |-> taskSeq + 1,
     title |-> body.title,
     description |-> OrElse(body, "description", ""),
     user_id |-> uid,
     status |-> OrElse(body, "status", "todo"),
     due_date |-> DateParam(body, "due_date"),
     reminder_date |-> DateParam(body, "reminder_date"),
     priority |-> OrElse(body, "priority", "medium"),
     is_reminder_sent |-> FALSE,
     created_at |-> now,
     updated_at |-> now]

\* tasks.is_reminder_sent BOOLEAN DEFAULT false
DefaultReminderSent == FALSE

\* INSERT INTO tasks (title, description, user_id, status, due_date,
\* reminder_date, priority) VALUES ($1, $2, $3, 'todo', $4, $5, $6) RETURNING *
NewTaskRow(body, uid) ==
    [id |-> taskSeq + 1,
     title |-> body.title,
     description |-> OrElse(body, "description", ""),
     user_id |-> uid,
     status |-> "todo",
     due_date |-> DateParam(body, "due_date"),
     reminder_date |-> DateParam(body, "reminder_date"),
     priority |-> OrElse(body, "priority", "medium"),
     is_reminder_sent |-> DefaultReminderSent,
     created_at |-> now,
     updated_at |-> now]

\* POST /api/tasks, past the middleware
CreateHandler(body, uid) ==
    IF InsertTaskThrows(body)
    THEN [res |-> Response(500, "Erreur serveur lors de la creation de la tache"),
          tasks |-> tasks]
    ELSE LET row == NewTaskRow(body, uid)
         IN  [res |-> RowsResponse(201, <<row>>), tasks |-> tasks \cup {row}]

\* OwnedRows with the owner filter dropped (WHERE id = $1)
OwnedRows_AnyOwner(id, uid) == { t \in tasks : t.id = id }

\* WHERE id = $1 AND user_id = $2
OwnedRows(id, uid) == { t \in tasks : t.id = id /\ t.user_id = uid }

\* ValidateUpdate with the status checked before the title
ValidateUpdate_StatusFirst(body) ==
    IF FalsyStr(body, "status") \/ body.status \notin {"todo", "in-progress", "done"}
    THEN "Statut invalide."
    ELSE IF ~Has(body, "title") \/ body.title = <<>> \/ Trim(body.title) = <<>>
    THEN "Le titre est requis."
    ELSE IF ~FalsyStr(body, "priority") /\ body.priority \notin {"low", "medium", "high"}
    THEN "Priorite invalide."
    ELSE IF ~FalsyStr(body, "due_date") /\ ParseDate(body.due_date) = NaN
    THEN "Date d'echeance invalide."
    ELSE IF ~FalsyStr(body, "reminder_date") /\ ParseDate(body.reminder_date) = NaN
    THEN "Date de rappel invalide."
    ELSE ""

\* ValidateUpdate accepting any non-empty status
ValidateUpdate_AnyStatus(body) ==
    IF ~Has(body, "title") \/ body.title = <<>> \/ Trim(body.title) = <<>>
    THEN "Le titre est requis."
    ELSE IF FalsyStr(body, "status")
    THEN "Statut invalide."
    ELSE IF ~FalsyStr(body, "priority") /\ body.priority \notin {"low", "medium", "high"}
    THEN "Priorite invalide."
    ELSE IF ~FalsyStr(body, "due_date") /\ ParseDate(body.due_date) = NaN
    THEN "Date d'echeance invalide."
    ELSE IF ~FalsyStr(body, "reminder_date") /\ ParseDate(body.reminder_date) = NaN
    THEN "Date de rappel invalide."
    ELSE ""

\* The checks of PUT before any query, in the order of the code: the message
\* of the first one that fails, "" when all pass.
ValidateUpdate(body) ==
    IF ~Has(body, "title") \/ body.title = <<>> \/ Trim(body.title) = <<>>
    THEN "Le titre est requis."
    ELSE IF FalsyStr(body, "status") \/ body.status \notin Statuses
    THEN "Statut invalide."
    ELSE IF ~FalsyStr(body, "priority") /\ body.priority \notin Priorities
    THEN "Priorite invalide."
    ELSE IF ~FalsyStr(body, "due_date") /\ ParseDate(body.due_date) = NaN
    THEN "Date d'echeance invalide."
    ELSE IF ~FalsyStr(body, "reminder_date") /\ ParseDate(body.reminder_date) = NaN
    THEN "Date de rappel invalide."
    ELSE ""

\* UpdatedRow as a partial patch: an omitted description, date or priority
\* keeps the stored value
UpdatedRow_Patch(old, body) ==
    [old EXCEPT !.title = Trim(body.title),
                !.description = OrElse(body, "description", old.description),
                !.status = body.status,
                !.due_date = IF FalsyStr(body, "due_date") THEN old.due_date
                             ELSE ParseDate(body.due_date),
                !.reminder_date = IF FalsyStr(body, "reminder_date") THEN old.reminder_date
                                  ELSE ParseDate(body.reminder_date),
                !.priority = OrElse(body, "priority", old.priority),
                !.updated_at = now]

\* UpdatedRow re-arming the reminder (is_reminder_sent = false)
UpdatedRow_ResetSent(old, body) ==
    [old EXCEPT !.title = Trim(body.title),
                !.description = OrElse(body, "description", ""),
                !.status = body.status,
                !.due_date = DateParam(body, "due_date"),
                !.reminder_date = DateParam(body, "reminder_date"),
                !.priority = OrElse(body, "priority", "medium"),
                !.is_reminder_sent = FALSE,
                !.updated_at = now]

\* UPDATE tasks SET title = $1, description = $2, status = $3, due_date = $4,
\* reminder_date = $5, priority = $6, updated_at = CURRENT_TIMESTAMP
UpdatedRow(old, body) ==
    [old EXCEPT !.title = Trim(body.title),
                !.description = OrElse(body, "description", ""),
                !.status = body.status,
                !.due_date = DateParam(body, "due_date"),
                !.reminder_date = DateParam(body, "reminder_date"),
                !.priority = OrElse(body, "priority", "medium"),
                !.updated_at = now]

NotFound == Response(404, "Tache non trouvee ou non autorisee.")

\* UpdateHandler stamping updated_at on the owned row before it validates
UpdateHandler_TouchFirst(id, body, uid) ==
    LET err == ValidateUpdate(body)
        touched == { IF t.id = id /\ t.user_id = uid
                     THEN [t EXCEPT !.updated_at = now] ELSE t : t \in tasks }
    IN
    IF err # "" THEN [res |-> Response(400, err), tasks |-> touched]
    ELSE IF OwnedRows(id, uid) = {} THEN [res |-> NotFound, tasks |-> tasks]
    ELSE LET old == CHOOSE t \in OwnedRows(id, uid) : TRUE
             row == UpdatedRow(old, body)
         IN  [res |-> RowsResponse(200, <<row>>),
              tasks |-> (tasks \ {old}) \cup {row}]

\* UpdateHandler with done as a terminal status: a done task keeps its status
UpdateHandler_DoneTerminal(id, body, uid) ==
    LET err == ValidateUpdate(body) IN
    IF err # "" THEN [res |-> Response(400, err), tasks |-> tasks]
    ELSE IF OwnedRows(id, uid) = {} THEN [res |-> NotFound, tasks |-> tasks]
    ELSE LET old == CHOOSE t \in OwnedRows(id, uid) : TRUE
             row == UpdatedRow(old, body)
         IN  IF old.status = "done" /\ body.status # "done"
             THEN [res |-> Response(400, "Statut invalide."), tasks |-> tasks]
             ELSE [res |-> RowsResponse(200, <<row>>),
                   tasks |-> (tasks \ {old}) \cup {row}]

\* PUT /api/tasks/:id, past the middleware
UpdateHandler(id, body, uid) ==
    LET err == ValidateUpdate(body) IN
    IF err # "" THEN [res |-> Response(400, err), tasks |-> tasks]
    ELSE IF OwnedRows(id, uid) = {} THEN [res |-> NotFound, tasks |-> tasks]
    ELSE LET old == CHOOSE t \in OwnedRows(id, uid) : TRUE
             row == UpdatedRow(old, body)
         IN  [res |-> RowsResponse(200, <<row>>),
              tasks |-> (tasks \ {old}) \cup {row}]

\* UpdateWriteHandler writing only the fields the body carries, the others
\* staying as the last writer left them
UpdateWriteHandler_Merge(r) ==
    LET uid == ReqUser(r.header).id
        rows == OwnedRows(r.id, uid)
    IN  IF rows = {} THEN [res |-> NotFound, tasks |-> tasks]
        ELSE LET old == CHOOSE t \in rows : TRUE
                 row == UpdatedRow_Patch(old, r.body)
             IN  [res |-> RowsResponse(200, <<row>>),
                  tasks |-> (tasks \ {old}) \cup {row}]

\* UpdateWriteHandler inserting the row when the UPDATE matches none
UpdateWriteHandler_Upsert(r) ==
    LET uid == ReqUser(r.header).id
        rows == OwnedRows(r.id, uid)
        old == IF rows = {}
               THEN [id |-> r.id, title |-> <<>>, description |-> "", user_id |-> uid,
                     status |-> "todo", due_date |-> NULL, reminder_date |-> NULL,
                     priority |-> "medium", is_reminder_sent |-> FALSE,
                     created_at |-> now, updated_at |-> now]
               ELSE CHOOSE t \in rows : TRUE
        row == UpdatedRow(old, r.body)
    IN  [res |-> RowsResponse(200, <<row>>), tasks |-> (tasks \ rows) \cup {row}]

\* The second half of PUT /api/tasks/:id for the request r, which passed the
\* checks and the ownership SELECT earlier: the UPDATE ... WHERE id = $7 AND
\* user_id = $8 RETURNING * on the table as it is now, 404 when it returns
\* no row
UpdateWriteHandler(r) ==
    LET uid == ReqUser(r.header).id
        rows == OwnedRows(r.id, uid)
    IN  IF rows = {} THEN [res |-> NotFound, tasks |-> tasks]
        ELSE LET old == CHOOSE t \in rows : TRUE
                 row == UpdatedRow(old, r.body)
             IN  [res |-> RowsResponse(200, <<row>>),
                  tasks |-> (tasks \ {old}) \cup {row}]

\* DeleteHandler deleting every task of the caller (WHERE user_id = $2)
DeleteHandler_WholeUser(id, uid) ==
    IF OwnedRows(id, uid) = {} THEN [res |-> NotFound, tasks |-> tasks]
    ELSE [res |-> Response(204, ""), tasks |-> { t \in tasks : t.user_id # uid }]

\* DELETE /api/tasks/:id, past the middleware
DeleteHandler(id, uid) ==
    IF OwnedRows(id, uid) = {} THEN [res |-> NotFound, tasks |-> tasks]
    ELSE [res |-> Response(204, ""), tasks |-> tasks \ OwnedRows(id, uid)]

\* MarkedRow flipping the flag instead of setting it
MarkedRow_Toggle(old) == [old EXCEPT !.is_reminder_sent = ~old.is_reminder_sent]

\* UPDATE tasks SET is_reminder_sent = true WHERE id = $1 AND user_id = $2
MarkedRow(old) == [old EXCEPT !.is_reminder_sent = TRUE]

\* POST /api/tasks/:id/mark-reminder-sent, past the middleware
MarkReminderSentHandler(id, uid) ==
    IF OwnedRows(id, uid) = {} THEN [res |-> NotFound, tasks |-> tasks]
    ELSE LET old == CHOOSE t \in OwnedRows(id, uid) : TRUE
             row == MarkedRow(old)
         IN  [res |-> RowsResponse(200, <<row>>),
              tasks |-> (tasks \ {old}) \cup {row}]

\* ORDER BY column ASC: every arrangement of the rows S with the column (a
\* function of the row) in ascending order; rows that tie come in any order
OrderBy(S, column) ==
    { f \in [1..Cardinality(S) -> S] :
        /\ \A i, j \in DOMAIN f : i # j => f[i] # f[j]
        /\ \A i, j \in DOMAIN f : i < j => column[f[i]] <= column[f[j]] }

\* SelectTasks with the owner filter dropped
SelectTasks_AllUsers(uid) == OrderBy(tasks, [t \in tasks |-> t.id])

\* SELECT * FROM tasks WHERE user_id = $1 ORDER BY id ASC
SelectTasks(uid) ==
    LET S == { t \in tasks : t.user_id = uid } IN OrderBy(S, [t \in S |-> t.id])

\* SelectDueSoon with the status filter dropped
SelectDueSoon_AnyStatus(uid) ==
    LET S == { t \in tasks : /\ t.user_id = uid
                             /\ t.due_date # NULL
                             /\ t.due_date <= now + DueSoonHours }
    IN  OrderBy(S, [t \in S |-> t.due_date])

\* ... AND due_date IS NOT NULL AND due_date <= NOW() + INTERVAL '24 hours'
\* AND status != 'done' ORDER BY due_date ASC
SelectDueSoon(uid) ==
    LET S == { t \in tasks : /\ t.user_id = uid
                             /\ t.due_date # NULL
                             /\ t.due_date <= now + DueSoonHours
                             /\ t.status # "done" }
    IN  OrderBy(S, [t \in S |-> t.due_date])

\* SelectReminders with the is_reminder_sent filter dropped
SelectReminders_IgnoreSent(uid) ==
    LET S == { t \in tasks : /\ t.user_id = uid
                             /\ t.reminder_date # NULL
                             /\ t.reminder_date <= now
                             /\ t.status # "done" }
    IN  OrderBy(S, [t \in S |-> t.reminder_date])

\* ... AND reminder_date IS NOT NULL AND reminder_date <= NOW()
\* AND is_reminder_sent = false AND status != 'done' ORDER BY reminder_date ASC
SelectReminders(uid) ==
    LET S == { t \in tasks : /\ t.user_id = uid
                             /\ t.reminder_date # NULL
                             /\ t.reminder_date <= now
                             /\ t.is_reminder_sent = FALSE
                             /\ t.status # "done" }
    IN  OrderBy(S, [t \in S |-> t.reminder_date])

\* ------------------------------------------------------- request bodies
RegisterBodies ==
    [email : Emails, password : Passwords]
        \cup { [email |-> "a@x"], [password |-> "pw1"],
               [email |-> "", password |-> "pw1"], [email |-> "a@x", password |-> ""] }

LoginBodies ==
    [email : Emails, password : Passwords]
        \cup { [email |-> e] : e \in Emails } \cup { [password |-> "pw1"] }

TitleA == <<"A">>
TitleB == <<" ", "B", " ">>
TitleBlank == <<" ", " ">>
DateNow == "1970-01-01T00:00:00Z"
DateSoon == "1970-01-01T01:00:00Z"
DateLater == "1970-01-02T01:00:00Z"
DateBad == "pas-une-date"

CreateBodies ==
    { [title |-> TitleA],
      [title |-> TitleBlank],
      [title |-> TitleB, description |-> "d", status |-> "done", due_date |-> DateLater,
       reminder_date |-> DateNow, priority |-> "high"],
      [title |-> TitleA, priority |-> "urgent", due_date |-> DateNow],
      [title |-> TitleA, due_date |-> DateBad],
      [description |-> "d"] }

ValidUpdateBodies ==
    { [title |-> TitleB, status |-> "in-progress"],
      [title |-> TitleA, description |-> "d", status |-> "done", due_date |-> DateNow,
       reminder_date |-> DateNow, priority |-> "low"],
      [title |-> TitleA, status |-> "todo", due_date |-> DateLater,
       reminder_date |-> DateLater, priority |-> ""] }

InvalidUpdateBodies ==
    { [title |-> TitleBlank, status |-> "termine"],
      [status |-> "todo"],
      [title |-> TitleA, status |-> "termine"],
      [title |-> TitleA, status |-> "termine", priority |-> "urgent"],
      [title |-> TitleA, priority |-> "urgent"],
      [title |-> TitleA, status |-> "todo", priority |-> "urgent", due_date |-> DateBad],
      [title |-> TitleA, status |-> "todo", due_date |-> DateBad,
       reminder_date |-> DateBad],
      [title |-> TitleA, status |-> "todo", due_date |-> DateNow,
       reminder_date |-> DateBad] }

UpdateBodies == ValidUpdateBodies \cup InvalidUpdateBodies

TaskIds == 1..MaxTasks

\* --------------------------------------------------------------- routes
\* Each route is an action over the headers H and the bodies B its clients
\* send; a task route runs authenticateToken first.
Register(B) ==
    \E body \in B, salt \in Salts :
        LET out == RegisterHandler(body, salt) IN
        /\ req' = Request("register", HeaderAbsent, 0, body)
        /\ res' = out.res
        /\ users' = out.users
        /\ userSeq' = IF out.users = users THEN userSeq ELSE userSeq + 1
        /\ UNCHANGED <<tasks, taskSeq, now, inflight, client>>

Login(B) ==
    \E body \in B :
        /\ req' = Request("login", HeaderAbsent, 0, body)
        /\ res' = LoginHandler(body)
        /\ UNCHANGED <<users, tasks, userSeq, taskSeq, now, inflight, client>>

Rejected(a) == [res |-> Response(a, StatusText(a)), tasks |-> tasks]

ListTasks(H) ==
    \E h \in H :
        LET a == authenticateToken(h) IN
        /\ req' = Request("list", h, 0, NoBody)
        /\ IF a # 0 THEN res' = Response(a, StatusText(a))
           ELSE \E rows \in SelectTasks(ReqUser(h).id) : res' = RowsResponse(200, rows)
        /\ UNCHANGED <<users, tasks, userSeq, taskSeq, now, inflight, client>>

CreateTask(H, B, cap) ==
    /\ taskSeq < cap
    /\ \E h \in H, body \in B :
        LET a == authenticateToken(h)
            out == IF a # 0 THEN Rejected(a) ELSE CreateHandler(body, ReqUser(h).id)
        IN  /\ req' = Request("create", h, 0, body)
            /\ res' = out.res
            /\ tasks' = out.tasks
            /\ taskSeq' = IF out.tasks = tasks THEN taskSeq ELSE taskSeq + 1
            /\ UNCHANGED <<users, userSeq, now, inflight, client>>

UpdateTask(H, B) ==
    \E h \in H, id \in TaskIds, body \in B :
        LET a == authenticateToken(h)
            out == IF a # 0 THEN Rejected(a) ELSE UpdateHandler(id, body, ReqUser(h).id)
        IN  /\ req' = Request("update", h, id, body)
            /\ res' = out.res
            /\ tasks' = out.tasks
            /\ UNCHANGED <<users, userSeq, taskSeq, now, inflight, client>>

DeleteTask(H) ==
    \E h \in H, id \in TaskIds :
        LET a == authenticateToken(h)
            out == IF a # 0 THEN Rejected(a) ELSE DeleteHandler(id, ReqUser(h).id)
        IN  /\ req' = Request("delete", h, id, NoBody)
            /\ res' = out.res
            /\ tasks' = out.tasks
            /\ UNCHANGED <<users, userSeq, taskSeq, now, inflight, client>>

ListDueSoon(H) ==
    \E h \in H :
        LET a == authenticateToken(h) IN
        /\ req' = Request("due-soon", h, 0, NoBody)
        /\ IF a # 0 THEN res' = Response(a, StatusText(a))
           ELSE \E rows \in SelectDueSoon(ReqUser(h).id) : res' = RowsResponse(200, rows)
        /\ UNCHANGED <<users, tasks, userSeq, taskSeq, now, inflight, client>>

ListPendingReminders(H) ==
    \E h \in H :
        LET a == authenticateToken(h) IN
        /\ req' = Request("reminders", h, 0, NoBody)
        /\ IF a # 0 THEN res' = Response(a, StatusText(a))
           ELSE \E rows \in SelectReminders(ReqUser(h).id) : res' = RowsResponse(200, rows)
        /\ UNCHANGED <<users, tasks, userSeq, taskSeq, now, inflight, client>>

MarkReminderSent(H) ==
    \E h \in H, id \in TaskIds :
        LET a == authenticateToken(h)
            out == IF a # 0 THEN Rejected(a)
                   ELSE MarkReminderSentHandler(id, ReqUser(h).id)
        IN  /\ req' = Request("mark-reminder-sent", h, id, NoBody)
            /\ res' = out.res
            /\ tasks' = out.tasks
            /\ UNCHANGED <<users, userSeq, taskSeq, now, inflight, client>>

\* The first half of a PUT: the middleware, the checks and the ownership
\* SELECT.  A request that fails one of them is answered at once, as in
\* UpdateTask; one that passes them all waits for its UPDATE.
UpdateSelect(H, B) ==
    /\ Cardinality(inflight) < MaxInFlight
    /\ \E h \in H, id \in TaskIds, body \in B :
        LET a == authenticateToken(h)
            uid == ReqUser(h).id
        IN  IF a = 0 /\ ValidateUpdate(body) = "" /\ OwnedRows(id, uid) # {}
            THEN /\ inflight' = inflight \cup {Request("update", h, id, body)}
                 /\ UNCHANGED <<users, tasks, userSeq, taskSeq, now, req, res, client>>
            ELSE /\ req' = Request("update", h, id, body)
                 /\ res' = IF a # 0 THEN Response(a, StatusText(a))
                           ELSE UpdateHandler(id, body, uid).res
                 /\ UNCHANGED <<users, tasks, userSeq, taskSeq, now, inflight, client>>

\* The second half of a PUT that is in flight
UpdateWrite ==
    \E r \in inflight :
        LET out == UpdateWriteHandler(r) IN
        /\ req' = r
        /\ res' = out.res
        /\ tasks' = out.tasks
        /\ inflight' = inflight \ {r}
        /\ UNCHANGED <<users, userSeq, taskSeq, now, client>>

\* ---------------------------------------------------------------- client
\* src/frontend/src/App.js: the state of the App component (token, user,
\* tasks, isLoading, error, notifications), localStorage, the intervals
\* setInterval has installed and not cleared, and the API calls that are
\* awaiting their response.  A setState and the effects its render triggers are one step.
\* The client reads the same clock as the server.

\* user === null
NoUser == [id |-> 0, email |-> ""]

\* diffHours <= 24
ClientDueSoonHours == 24

\* new Date(dueDate) < new Date()
isOverdue(dueDate) == dueDate # NULL /\ dueDate < now

\* isDueSoon with the due instant itself counted as soon (diffHours >= 0)
isDueSoon_FromZero(dueDate) ==
    /\ dueDate # NULL
    /\ dueDate - now >= 0
    /\ dueDate - now <= ClientDueSoonHours

\* diffHours > 0 && diffHours <= 24
isDueSoon(dueDate) ==
    /\ dueDate # NULL
    /\ dueDate - now > 0
    /\ dueDate - now <= ClientDueSoonHours

\* { id: task.id, message: `<label>: ${task.title}`, type }
Notification(task, label, type) ==
    [id |-> task.id, message |-> <<label, task.title>>, type |-> type]

\* TaskNotifications without its due date branch
TaskNotifications_ReminderOnly(task) ==
    IF /\ task.reminder_date # NULL
       /\ ~task.is_reminder_sent
       /\ task.status # "done"
       /\ task.reminder_date <= now
    THEN <<Notification(task, "Rappel", "reminder")>> ELSE <<>>

\* what the body of the forEach pushes for one task
TaskNotifications(task) ==
    (IF /\ task.reminder_date # NULL
        /\ ~task.is_reminder_sent
        /\ task.status # "done"
        /\ task.reminder_date <= now
     THEN <<Notification(task, "Rappel", "reminder")>> ELSE <<>>)
    \o
    (IF task.due_date # NULL /\ task.status # "done"
     THEN IF isOverdue(task.due_date)
          THEN <<Notification(task, "En retard", "overdue")>>
          ELSE IF isDueSoon(task.due_date)
          THEN <<Notification(task, "Echeance proche", "due-soon")>>
          ELSE <<>>
     ELSE <<>>)

\* newNotifications of checkReminders(currentTasks)
RECURSIVE NewNotifications(_)
NewNotifications(currentTasks) ==
    IF currentTasks = <<>> THEN <<>>
    ELSE TaskNotifications(Head(currentTasks)) \o NewNotifications(Tail(currentTasks))

\* checkReminders: setNotifications(prev => [...prev, ...newNotifications])
\* when there is something new
checkReminders(c, currentTasks) ==
    [c EXCEPT !.notifications = @ \o NewNotifications(currentTasks)]

\* An apiCall awaiting its response: what it sends and the tasks of the
\* render whose handler issued it (the closure its continuation reads).
Call(kind, c, id, body) ==
    [kind |-> kind, token |-> c.token, id |-> id, body |-> body, tasks |-> c.tasks,
     phase |-> "sent", res |-> Response(0, "")]

\* apiCall adds the Authorization header when it has a token
CallHeader(k) == IF k.token = NoToken THEN HeaderAbsent ELSE Bearer(k.token)

\* useEffect(..., [tasks, token]): the cleanup of the previous run
\* (clearInterval), then a new interval over the tasks of this render when
\* there is a token
IntervalEffect(c) ==
    LET new == IF c.token = NoToken THEN {} ELSE {[tasks |-> c.tasks]}
    IN  [c EXCEPT !.intervals = (c.intervals \ c.installed) \cup new,
                  !.installed = new]

\* useEffect(..., [token]): fetchTasksAndUser up to its await
FetchEffect(c) ==
    IF c.token # NoToken
    THEN [c EXCEPT !.isLoading = TRUE,
                   !.error = "",
                   !.user = [id |-> c.token.id, email |-> c.token.email],
                   !.calls = @ \cup {Call("fetch", c, 0, NoBody)}]
    ELSE [c EXCEPT !.isLoading = FALSE, !.tasks = <<>>, !.user = NoUser]

\* The render that follows a handler which turned the state c0 into c1, with
\* the effects whose dependencies changed.
Render(c0, c1) ==
    IntervalEffect(IF c1.token # c0.token THEN FetchEffect(c1) ELSE c1)

\* The App just mounted, t being localStorage.getItem('token') || null
Mount(t) ==
    LET c == [localStorage |-> t, token |-> t, user |-> NoUser, tasks |-> <<>>,
              isLoading |-> TRUE, error |-> "", notifications |-> <<>>, intervals |-> {}, installed |-> {},
              calls |-> {}]
    IN  IntervalEffect(FetchEffect(c))

\* handleLogout
handleLogout(c) ==
    [c EXCEPT !.localStorage = NoToken, !.token = NoToken, !.user = NoUser]

\* err.message.includes("403"): the message apiCall throws is the msg of a
\* JSON body, else "Erreur HTTP <status>: <text>"; sendStatus answers text
ErrorMentions403(r) == r.code = 403 /\ r.msg = StatusText(403)

\* response.ok
ResponseOk(r) == r.code \in 200..299

\* The route a call goes to, as the server handles it on the tables as they
\* are: the answers it may give, each with the tasks table it leaves.
Served(k) ==
    LET h == CallHeader(k)
        a == authenticateToken(h)
        uid == ReqUser(h).id
    IN  IF a # 0 THEN {Rejected(a)}
        ELSE IF k.kind = "fetch"
        THEN { [res |-> RowsResponse(200, rows), tasks |-> tasks] : rows \in SelectTasks(uid) }
        ELSE IF k.kind = "create" THEN {CreateHandler(k.body, uid)}
        ELSE IF k.kind = "delete" THEN {DeleteHandler(k.id, uid)}
        ELSE {UpdateHandler(k.id, k.body, uid)}

CallOp(k) ==
    CASE k.kind = "fetch" -> "list"
      [] k.kind = "create" -> "create"
      [] k.kind = "delete" -> "delete"
      [] OTHER -> "update"

\* What follows the await of the call k, in the client state c, once its
\* response is there: the then-branch when response.ok, else the catch.
Received(c, k) ==
    CASE k.kind = "fetch" ->
            LET done == [c EXCEPT !.isLoading = FALSE] IN
            IF ResponseOk(k.res)
            THEN checkReminders([done EXCEPT !.tasks = k.res.rows], k.res.rows)
            ELSE LET failed == [done EXCEPT !.error = "Failed to fetch tasks"]
                 IN  IF ErrorMentions403(k.res) THEN handleLogout(failed) ELSE failed
      [] k.kind = "create" ->
            IF ResponseOk(k.res) THEN [c EXCEPT !.tasks = Append(@, k.res.rows[1])]
            ELSE [c EXCEPT !.error = "Erreur lors de la sauvegarde"]
      [] k.kind = "delete" ->
            IF ResponseOk(k.res)
            THEN [c EXCEPT !.tasks = SelectSeq(k.tasks, LAMBDA t : t.id # k.id)]
            ELSE [c EXCEPT !.error = "Erreur de suppression"]
      [] OTHER ->
            IF ResponseOk(k.res)
            THEN [c EXCEPT !.tasks = [i \in DOMAIN k.tasks |->
                                        IF k.tasks[i].id = k.id THEN k.res.rows[1]
                                        ELSE k.tasks[i]]]
            ELSE [c EXCEPT !.error = IF k.kind = "edit" THEN "Erreur lors de la sauvegarde"
                                     ELSE "Erreur de mise a jour"]

\* The text JSON carries for a timestamp column
FormatDate(hours) ==
    CASE hours = NULL -> ""
      [] hours = 0 -> "1970-01-01T00:00:00Z"
      [] hours = 1 -> "1970-01-01T01:00:00Z"
      [] hours = 25 -> "1970-01-02T01:00:00Z"

\* The fields of { ...task, ...more } the PUT route reads
TaskBody(task, status) ==
    [title |-> task.title, description |-> task.description, status |-> status,
     due_date |-> FormatDate(task.due_date),
     reminder_date |-> FormatDate(task.reminder_date), priority |-> task.priority]

\* { ...editingTask, ...taskData }
EditBody(task, form) ==
    [title |-> form.title, description |-> form.description, status |-> task.status,
     due_date |-> form.due_date, reminder_date |-> form.reminder_date,
     priority |-> form.priority]

\* handleAuthSubmit in the login view; the exchange with the server is one step
ClientLogin(B) ==
    /\ client.token = NoToken
    /\ Cardinality(client.calls) < MaxCalls
    /\ \E body \in B :
        LET r == LoginHandler(body) IN
        /\ req' = Request("login", HeaderAbsent, 0, body)
        /\ res' = r
        /\ client' = IF ResponseOk(r)
                     THEN Render(client, [client EXCEPT !.localStorage = r.token[1],
                                                        !.token = r.token[1]])
                     ELSE client
        /\ UNCHANGED <<users, tasks, userSeq, taskSeq, now, inflight>>

\* The server handles a call of the client
ServeCall ==
    \E k \in client.calls :
        /\ k.phase = "sent"
        /\ \E out \in Served(k) :
            /\ req' = Request(CallOp(k), CallHeader(k), k.id, k.body)
            /\ res' = out.res
            /\ tasks' = out.tasks
            /\ taskSeq' = IF k.kind = "create" /\ out.tasks # tasks THEN taskSeq + 1 ELSE taskSeq
            /\ client' = [client EXCEPT !.calls =
                            (@ \ {k}) \cup {[k EXCEPT !.phase = "answered", !.res = out.res]}]
        /\ UNCHANGED <<users, userSeq, now, inflight>>

\* The SELECT of GET /api/tasks throws while the server handles the fetch of
\* the client: the catch answers 500
FetchFails ==
    \E k \in client.calls :
        /\ k.phase = "sent"
        /\ k.kind = "fetch"
        /\ authenticateToken(CallHeader(k)) = 0
        /\ req' = Request("list", CallHeader(k), 0, NoBody)
        /\ res' = Response(500, "Erreur serveur")
        /\ client' = [client EXCEPT !.calls =
                        (@ \ {k}) \cup {[k EXCEPT !.phase = "answered",
                                                  !.res = Response(500, "Erreur serveur")]}]
        /\ UNCHANGED <<users, tasks, userSeq, taskSeq, now, inflight>>

\* The response of a call reaches the client and its continuation runs
ReceiveCall ==
    \E k \in client.calls :
        /\ k.phase = "answered"
        /\ LET c1 == Received([client EXCEPT !.calls = @ \ {k}], k) IN
            /\ Len(c1.notifications) <= MaxNotifications
            /\ client' = Render(client, c1)
        /\ UNCHANGED <<users, tasks, userSeq, taskSeq, now, req, res, inflight>>

\* The callback of an interval that is installed runs: checkReminders over
\* the tasks of the render that installed it
IntervalFires ==
    \E t \in client.intervals :
        LET c1 == checkReminders(client, t.tasks) IN
        /\ Len(c1.notifications) <= MaxNotifications
        /\ client' = c1
        /\ UNCHANGED <<users, tasks, userSeq, taskSeq, now, req, res, inflight>>

\* dismissNotification(notification.id) on one of the cards shown
\* (notifications.slice(0, 3))
dismissNotification(c, notificationId) ==
    [c EXCEPT !.notifications = SelectSeq(@, LAMBDA n : n.id # notificationId)]

Dismiss ==
    /\ client.token # NoToken
    /\ \E i \in DOMAIN client.notifications :
        /\ i <= 3
        /\ client' = dismissNotification(client, client.notifications[i].id)
    /\ UNCHANGED <<users, tasks, userSeq, taskSeq, now, req, res, inflight>>

\* A click on the logout button
Logout ==
    /\ client.token # NoToken
    /\ client' = Render(client, handleLogout(client))
    /\ UNCHANGED <<users, tasks, userSeq, taskSeq, now, req, res, inflight>>

\* The page is loaded again: the App mounts with the token localStorage
\* holds; the intervals and the pending calls of the old page are gone
Reload ==
    /\ client' = Mount(client.localStorage)
    /\ UNCHANGED <<users, tasks, userSeq, taskSeq, now, req, res, inflight>>

\* handleTaskSubmit without editingTask, up to its await
SubmitCreate(F, cap) ==
    /\ client.token # NoToken
    /\ Cardinality(client.calls) < MaxCalls
    /\ taskSeq + Cardinality({ k \in client.calls : k.kind = "create" /\ k.phase = "sent" }) < cap
    /\ \E form \in F :
        /\ Trim(form.title) # <<>>
        /\ client' = [client EXCEPT !.calls = @ \cup {Call("create", client, 0, form)}]
    /\ UNCHANGED <<users, tasks, userSeq, taskSeq, now, req, res, inflight>>

\* handleTaskSubmit with editingTask, up to its await
SubmitEdit(F) ==
    /\ client.token # NoToken
    /\ ~client.isLoading
    /\ Cardinality(client.calls) < MaxCalls
    /\ \E form \in F, i \in DOMAIN client.tasks :
        /\ Trim(form.title) # <<>>
        /\ client' = [client EXCEPT !.calls = @ \cup
                        {Call("edit", client, client.tasks[i].id,
                              EditBody(client.tasks[i], form))}]
    /\ UNCHANGED <<users, tasks, userSeq, taskSeq, now, req, res, inflight>>

\* handleDrop of a card of the board on the column newStatus, up to its await
Drop(S) ==
    /\ client.token # NoToken
    /\ ~client.isLoading
    /\ Cardinality(client.calls) < MaxCalls
    /\ \E newStatus \in S, i \in DOMAIN client.tasks :
        /\ client.tasks[i].status # newStatus
        /\ client' = [client EXCEPT !.calls = @ \cup
                        {Call("drop", client, client.tasks[i].id,
                              TaskBody(client.tasks[i], newStatus))}]
    /\ UNCHANGED <<users, tasks, userSeq, taskSeq, now, req, res, inflight>>

\* handleDeleteTask, confirmed, up to its await
ClickDelete ==
    /\ client.token # NoToken
    /\ ~client.isLoading
    /\ Cardinality(client.calls) < MaxCalls
    /\ \E i \in DOMAIN client.tasks :
        client' = [client EXCEPT !.calls = @ \cup
                     {Call("delete", client, client.tasks[i].id, NoBody)}]
    /\ UNCHANGED <<users, tasks, userSeq, taskSeq, now, req, res, inflight>>

\* ------------------------------------------------------------------ Init
Init ==
    /\ users = {}
    /\ tasks = {}
    /\ userSeq = 0
    /\ taskSeq = 0
    /\ now = 0
    /\ req = Request("none", HeaderAbsent, 0, NoBody)
    /\ res = Response(0, "")
    /\ inflight = {}
    /\ client = Mount(NoToken)

Tick ==
    /\ now < MaxTime
    /\ now' = now + 1
    /\ UNCHANGED <<users, tasks, userSeq, taskSeq, req, res, inflight, client>>

\* ------------------------------------------------------ specifications
\* The clients of Spec: two users who register, then create, edit, mark,
\* delete and list tasks with the token login gave them, all within the same
\* hour; one edit is invalid.
SignUps == { [email |-> "a@x", password |-> "pw1"], [email |-> "b@x", password |-> "pw2"] }
Drafts == { [title |-> TitleA],
            [title |-> TitleB, description |-> "d", status |-> "done",
             due_date |-> DateLater, reminder_date |-> DateNow, priority |-> "high"] }
Edits == { [title |-> TitleB, status |-> "in-progress"],
           [title |-> TitleA, description |-> "d", status |-> "done",
            due_date |-> DateNow, reminder_date |-> DateNow, priority |-> "low"],
           [title |-> TitleA, status |-> "termine"] }

Next ==
    \/ Register(SignUps)
    \/ ListTasks(LiveHeaders)
    \/ CreateTask(LiveHeaders, Drafts, MaxTasks)
    \/ UpdateTask(LiveHeaders, Edits)
    \/ DeleteTask(LiveHeaders)
    \/ MarkReminderSent(LiveHeaders)

Spec == Init /\ [][Next]_vars

\* The clients of SpecInput send every body of CreateBodies and UpdateBodies,
\* all within the same hour.
NextInput ==
    \/ Register(SignUps)
    \/ CreateTask(LiveHeaders, CreateBodies, MaxInputTasks)
    \/ UpdateTask(LiveHeaders, UpdateBodies)
    \/ DeleteTask(LiveHeaders)
    \/ MarkReminderSent(LiveHeaders)

SpecInput == Init /\ [][NextInput]_vars

\* The clients of SpecGate: one user, and every task route called with every
\* kind of Authorization header.
GateSignUps == { [email |-> "a@x", password |-> "pw1"] }
GateDrafts == { [title |-> TitleA, reminder_date |-> DateNow] }
GateEdits == { [title |-> TitleB, status |-> "done", due_date |-> DateNow] }

NextGate ==
    \/ Tick
    \/ Register(GateSignUps)
    \/ ListTasks(Headers)
    \/ CreateTask(Headers, GateDrafts, MaxGateTasks)
    \/ UpdateTask(Headers, GateEdits)
    \/ DeleteTask(Headers)
    \/ ListDueSoon(Headers)
    \/ ListPendingReminders(Headers)
    \/ MarkReminderSent(Headers)

SpecGate == Init /\ [][NextGate]_vars

\* The clients of SpecClock: user a@x creates tasks with due and reminder
\* dates, completes and marks them; both users poll the two notification
\* routes while the clock runs.
ClockDrafts == { [title |-> TitleA, due_date |-> DateNow, reminder_date |-> DateSoon],
                 [title |-> TitleB, description |-> "d", due_date |-> DateLater,
                  reminder_date |-> DateNow, priority |-> "high"] }
ClockEdits == { [title |-> TitleA, description |-> "e", status |-> "done",
                 due_date |-> DateSoon, reminder_date |-> DateNow, priority |-> "low"] }
ClockWriters == { h \in LiveHeaders : h.token.email = "a@x" }

NextClock ==
    \/ Tick
    \/ Register(SignUps)
    \/ CreateTask(ClockWriters, ClockDrafts, MaxClockTasks)
    \/ UpdateTask(ClockWriters, ClockEdits)
    \/ ListDueSoon(LiveHeaders)
    \/ ListPendingReminders(LiveHeaders)
    \/ MarkReminderSent(ClockWriters)

SpecClock == Init /\ [][NextClock]_vars

\* The clients of SpecEdit: user a@x creates a fully filled task and marks
\* it; hours later both users edit it with bodies that pass and bodies that
\* fail the checks, on identifiers that exist and that do not.
EditDrafts == { [title |-> TitleB, description |-> "d", due_date |-> DateLater,
                 reminder_date |-> DateNow, priority |-> "high"] }
EditBodies ==
    ValidUpdateBodies \cup
        { [title |-> TitleBlank, status |-> "todo"],
          [title |-> TitleA, status |-> "done", reminder_date |-> DateBad] }

NextEdit ==
    \/ Tick
    \/ Register(SignUps)
    \/ CreateTask(ClockWriters, EditDrafts, MaxEditTasks)
    \/ UpdateTask(LiveHeaders, EditBodies)
    \/ MarkReminderSent(ClockWriters)

SpecEdit == Init /\ [][NextEdit]_vars

\* The clients of SpecRace: one user who creates, edits, marks and deletes
\* tasks, the requests running concurrently: a delete or a mark may run
\* between the two queries of an edit.
RaceDrafts == { [title |-> TitleA, reminder_date |-> DateNow] }
RaceEdits == { [title |-> TitleB, status |-> "in-progress"],
               [title |-> TitleA, description |-> "d", status |-> "done",
                due_date |-> DateNow, reminder_date |-> DateNow, priority |-> "low"],
               [title |-> TitleA, status |-> "termine"] }

NextRace ==
    \/ Register(GateSignUps)
    \/ CreateTask(LiveHeaders, RaceDrafts, MaxRaceTasks)
    \/ UpdateSelect(LiveHeaders, RaceEdits)
    \/ UpdateWrite
    \/ DeleteTask(LiveHeaders)
    \/ MarkReminderSent(LiveHeaders)

SpecRace == Init /\ [][NextRace]_vars

\* SpecNotify: one user whose task, created, marked and completed through
\* the API, carries due and reminder dates; the App logs in, fetches it, and
\* its interval evaluates it while the clock runs; the user dismisses
\* notifications.
NotifyDrafts == { [title |-> TitleA, due_date |-> DateNow, reminder_date |-> DateNow],
                  [title |-> TitleB, due_date |-> DateLater, reminder_date |-> DateSoon] }

NextNotify ==
    \/ Tick
    \/ Register(GateSignUps)
    \/ CreateTask(LiveHeaders, NotifyDrafts, MaxNotifyTasks)
    \/ UpdateTask(LiveHeaders, GateEdits)
    \/ MarkReminderSent(LiveHeaders)
    \/ ClientLogin(GateSignUps)
    \/ ServeCall
    \/ ReceiveCall
    \/ IntervalFires
    \/ Dismiss

SpecNotify == Init /\ [][NextNotify]_vars

\* SpecSession: the sessions of one user of the App: login, the fetch of the
\* task list, answered by the rows, by 403 once the token is an hour old, or
\* by 500, the interval, logout and page reloads.
SessionDrafts == { [title |-> TitleA, due_date |-> DateNow, reminder_date |-> DateNow] }

NextSession ==
    \/ Tick
    \/ Register(GateSignUps)
    \/ CreateTask(LiveHeaders, SessionDrafts, MaxSessionTasks)
    \/ ClientLogin(GateSignUps)
    \/ ServeCall
    \/ FetchFails
    \/ ReceiveCall
    \/ IntervalFires
    \/ Logout
    \/ Reload

SpecSession == Init /\ [][NextSession]_vars

\* SpecSync: one user works on the board of the App, the only writer of the
\* store: tasks are created and edited through the form, dragged to another
\* column and deleted, the calls overlapping as the network lets them.
SyncForms ==
    { [title |-> TitleA, description |-> "", due_date |-> "", reminder_date |-> "",
       priority |-> "medium"],
      [title |-> TitleBlank, description |-> "", due_date |-> "", reminder_date |-> "",
       priority |-> "medium"] }
SyncEdits ==
    { [title |-> TitleB, description |-> "d", due_date |-> "", reminder_date |-> "",
       priority |-> "high"] }
SyncColumns == {"done"}

NextSync ==
    \/ Register(GateSignUps)
    \/ ClientLogin(GateSignUps)
    \/ SubmitCreate(SyncForms, MaxSyncTasks)
    \/ SubmitEdit(SyncEdits)
    \/ Drop(SyncColumns)
    \/ ClickDelete
    \/ ServeCall
    \/ ReceiveCall

SpecSync == Init /\ [][NextSync]_vars

\* The clients of SpecAuth register and log in with every body.
NextAuth ==
    \/ Tick
    \/ Register(RegisterBodies)
    \/ Login(LoginBodies)

SpecAuth == Init /\ [][NextAuth]_vars

\* ================================================================ claims
\* The user a request is issued as: the identity its bearer token asserts.
Caller(r) == r.header.token.id

\* The request r names a task of T that belongs to somebody else.
Foreign(r, T) ==
    /\ r.op \in {"update", "delete", "mark-reminder-sent"}
    /\ r.header \in LiveHeaders
    /\ \E t \in T : t.id = r.id /\ t.user_id # Caller(r)

\* C1 (as stated): an UpdateTask, DeleteTask or MarkReminderSent issued as B on
\* a task owned by A answers 404 and leaves the tasks table unchanged.
C1_Original ==
    [][Foreign(req', tasks) => (res'.code = 404 /\ tasks' = tasks)]_vars

\* C1 (amended): such a request never changes the tasks table and never
\* succeeds; it answers 404, except an UpdateTask whose body fails validation,
\* which answers 400.
C1_ForeignRejected ==
    [][Foreign(req', tasks) =>
        /\ tasks' = tasks
        /\ res'.rows = <<>>
        /\ res'.code = IF req'.op = "update" /\ req'.body \notin ValidUpdateBodies
                       THEN 400 ELSE 404]_vars

C1_Witness ==
    /\ req.op = "update"
    /\ req.body \in ValidUpdateBodies
    /\ res.code = 404
    /\ \E t \in tasks : t.id = req.id /\ t.user_id # Caller(req)

\* C2: ListTasks answers exactly the caller's tasks, none of another user's
\* and none missing, in strictly ascending identifier order.
C2_ListExact ==
    (req.op = "list" /\ res.code = 200) =>
        /\ { res.rows[i] : i \in DOMAIN res.rows } = { t \in tasks : t.user_id = Caller(req) }
        /\ \A i, j \in DOMAIN res.rows : i < j => res.rows[i].id < res.rows[j].id

C2_Witness ==
    /\ req.op = "list"
    /\ res.code = 200
    /\ Len(res.rows) = 1
    /\ Cardinality(tasks) = 2

\* C10: MarkReminderSent on a task the caller owns answers 200 with the row,
\* flagged; calling it again answers the same and leaves the table as the
\* first call left it.
C10_Idempotent ==
    (/\ req.op = "mark-reminder-sent"
     /\ req.header \in LiveHeaders
     /\ \E t \in tasks : t.id = req.id /\ t.user_id = Caller(req)) =>
        /\ res.code = 200
        /\ Len(res.rows) = 1
        /\ res.rows[1].is_reminder_sent = TRUE
        /\ res.rows[1] \in tasks
        /\ MarkReminderSentHandler(req.id, Caller(req)) = [res |-> res, tasks |-> tasks]

C10_Witness ==
    /\ req.op = "mark-reminder-sent"
    /\ res.code = 200
    /\ \E t \in tasks : t.id = req.id /\ t.is_reminder_sent

\* The caller of the last request owns a stored task with the request's id.
CallerOwnsTarget == \E t \in tasks : t.id = req.id /\ t.user_id = Caller(req)

\* The five checks of an update body, each stated on its own.
C3_Failing(b) ==
    << ~Has(b, "title") \/ \A i \in DOMAIN b.title : b.title[i] = " ",
       ~Has(b, "status") \/ b.status \notin {"todo", "in-progress", "done"},
       Has(b, "priority") /\ b.priority \notin {"", "low", "medium", "high"},
       Has(b, "due_date") /\ b.due_date \notin {"", DateNow, DateLater},
       Has(b, "reminder_date") /\ b.reminder_date \notin {"", DateNow, DateLater} >>

C3_Messages ==
    << "Le titre est requis.", "Statut invalide.", "Priorite invalide.",
       "Date d'echeance invalide.", "Date de rappel invalide." >>

\* The first check that fails, 0 when none does.
C3_First(b) ==
    IF \E i \in 1..5 : C3_Failing(b)[i]
    THEN CHOOSE i \in 1..5 : C3_Failing(b)[i] /\ \A j \in 1..(i - 1) : ~C3_Failing(b)[j]
    ELSE 0

\* C3: an UpdateTask answers 400 with the message of the first failing check
\* in the order title, status, priority, due date, reminder date, whoever owns
\* the task; only a body that passes them all can answer 404 (task not owned
\* by the caller) or 200.
C3_Precedence ==
    (req.op = "update" /\ req.header \in LiveHeaders) =>
        IF C3_First(req.body) # 0
        THEN res = Response(400, C3_Messages[C3_First(req.body)])
        ELSE res.code = IF CallerOwnsTarget THEN 200 ELSE 404

C3_Witness ==
    /\ req.op = "update"
    /\ req.body = [title |-> TitleBlank, status |-> "termine"]
    /\ res = Response(400, "Le titre est requis.")
    /\ \E t \in tasks : t.id = req.id /\ t.user_id # Caller(req)

\* C7: a created task is stored and returned with the caller as owner and
\* status "todo" whatever the body says; created from a title alone it has
\* description "", priority "medium", no dates and is_reminder_sent false.
C7_CreateDefaults ==
    (req.op = "create" /\ req.header \in LiveHeaders) =>
        /\ DOMAIN req.body = {"title"} => res.code = 201
        /\ res.code = 201 =>
            /\ Len(res.rows) = 1
            /\ res.rows[1] \in tasks
            /\ res.rows[1].user_id = Caller(req)
            /\ res.rows[1].status = "todo"
            /\ res.rows[1].title = req.body.title
            /\ DOMAIN req.body = {"title"} =>
                /\ res.rows[1].description = ""
                /\ res.rows[1].priority = "medium"
                /\ res.rows[1].due_date = NULL
                /\ res.rows[1].reminder_date = NULL
                /\ res.rows[1].is_reminder_sent = FALSE

C7_Witness ==
    /\ req.op = "create"
    /\ req.body = [title |-> TitleA]
    /\ res.code = 201
    /\ tasks # {}

\* C8: every stored task has a status among todo, in-progress and done.
C8_StatusEnum == \A t \in tasks : t.status \in {"todo", "in-progress", "done"}

C8_Witness ==
    /\ req.op = "update"
    /\ req.body = [title |-> TitleA, status |-> "termine"]
    /\ res = Response(400, "Statut invalide.")
    /\ CallerOwnsTarget

\* C9 (as stated): every stored task has a title that is not blank and a
\* priority among low, medium and high.
C9_Original ==
    \A t \in tasks :
        /\ \E i \in DOMAIN t.title : t.title[i] # " "
        /\ t.priority \in {"low", "medium", "high"}

TaskOps ==
    {"list", "create", "update", "delete", "due-soon", "reminders", "mark-reminder-sent"}

C5_Original ==
    req.op = "login" =>
        /\ res.code # 200 => res = Response(400, "Email ou mot de passe incorrect.")
        /\ res.token # <<>> =>
            \E u \in users :
                /\ u.email = req.body.email
                /\ u.password_hash[3] = req.body.password

\* C6: no two stored users share an email; Register answers 400 when the
\* email or the password is missing and 500 when the email is already stored,
\* leaving the users table unchanged, and otherwise adds exactly one user and
\* answers 201 with its id and email only.
C6_Register ==
    [][/\ \A u, v \in users' : u.email = v.email => u = v
       /\ (now' = now /\ req'.op = "register") =>
            IF req'.body \notin [email : Emails, password : Passwords]
            THEN res'.code = 400 /\ users' = users
            ELSE IF \E u \in users : u.email = req'.body.email
            THEN res'.code = 500 /\ users' = users
            ELSE /\ res'.code = 201
                 /\ Cardinality(users') = Cardinality(users) + 1
                 /\ \E u \in users' \ users :
                        /\ users' = users \cup {u}
                        /\ u.email = req'.body.email
                        /\ res'.user = <<[id |-> u.id, email |-> u.email]>>]_vars

C6_Witness ==
    /\ req.op = "register"
    /\ req.body \in [email : Emails, password : Passwords]
    /\ res.code = 500
    /\ Cardinality(users) = 2

\* C11: the is_reminder_sent of a stored task changes only in a
\* MarkReminderSent issued by its owner on that task, and only from false to
\* true; no other request changes it, an UpdateTask that sets a reminder date
\* included.
C11_FlagOneWay ==
    [][\A t \in tasks, u \in tasks' :
        (t.id = u.id /\ t.is_reminder_sent # u.is_reminder_sent) =>
            /\ req'.op = "mark-reminder-sent"
            /\ req'.id = t.id
            /\ Caller(req') = t.user_id
            /\ t.is_reminder_sent = FALSE
            /\ u.is_reminder_sent = TRUE]_vars

C11_Witness ==
    /\ req.op = "update"
    /\ Has(req.body, "reminder_date")
    /\ res.code = 200
    /\ res.rows[1].is_reminder_sent = TRUE
    /\ res.rows[1] \in tasks

\* The rows of the last response, as a set.
Returned == { res.rows[i] : i \in DOMAIN res.rows }

\* C12 (as stated): ListDueSoon answers exactly the caller's tasks that are
\* not done and whose due date is set and lies between now and now + 24h,
\* both ends included, in ascending due date order; a task due before now is
\* not in the answer.
C12_Original ==
    [][(now' = now /\ req'.op = "due-soon" /\ res'.code = 200) =>
        /\ { res'.rows[i] : i \in DOMAIN res'.rows } =
               { t \in tasks : /\ t.user_id = Caller(req')
                               /\ t.status # "done"
                               /\ t.due_date # NULL
                               /\ now <= t.due_date
                               /\ t.due_date <= now + 24 }
        /\ \A i, j \in DOMAIN res'.rows :
               i < j => res'.rows[i].due_date <= res'.rows[j].due_date]_vars

C14_PendingExact ==
    [][/\ \A t \in tasks, u \in tasks' :
            (t.id = u.id /\ t.is_reminder_sent) => u.is_reminder_sent
       /\ (now' = now /\ req'.op = "reminders" /\ res'.code = 200) =>
            /\ { res'.rows[i] : i \in DOMAIN res'.rows } =
                   { t \in tasks : /\ t.user_id = Caller(req')
                                   /\ t.status # "done"
                                   /\ t.reminder_date # NULL
                                   /\ t.reminder_date <= now
                                   /\ ~t.is_reminder_sent }
            /\ \A i, j \in DOMAIN res'.rows :
                   i < j => res'.rows[i].reminder_date <= res'.rows[j].reminder_date
            /\ \A t \in tasks, i \in DOMAIN res'.rows :
                   t.is_reminder_sent => res'.rows[i].id # t.id]_vars

C14_Witness ==
    /\ req.op = "reminders"
    /\ res.code = 200
    /\ Len(res.rows) = 1
    /\ \E t \in tasks :
           /\ t.user_id = Caller(req)
           /\ t.is_reminder_sent
           /\ t.status # "done"
           /\ t.reminder_date # NULL
           /\ t.reminder_date <= now

\* C15: a DeleteTask by the owner removes that task and no other, changes no
\* other row and answers 204 with no content; an identifier once deleted is
\* never stored again, so every later ListTasks answer is without it, and a
\* DeleteTask on an identifier the caller owns no task under (a second delete
\* included) answers 404 and changes nothing.
C15_Delete ==
    [][/\ \A id \in 1..taskSeq :
            (\A t \in tasks : t.id # id) => (\A t \in tasks' : t.id # id)
       /\ req'.op = "list" /\ res'.code = 200 =>
            \A i \in DOMAIN res'.rows : \E t \in tasks : t.id = res'.rows[i].id
       /\ req'.op = "delete" =>
            IF \E t \in tasks : t.id = req'.id /\ t.user_id = Caller(req')
            THEN /\ res' = Response(204, "")
                 /\ tasks' = { t \in tasks : t.id # req'.id }
                 /\ Cardinality(tasks') = Cardinality(tasks) - 1
            ELSE /\ res'.code = 404
                 /\ tasks' = tasks]_vars

C15_Witness ==
    /\ req.op = "delete"
    /\ res.code = 404
    /\ req.id <= taskSeq
    /\ \A t \in tasks : t.id # req.id
    /\ \E t \in tasks : t.user_id = Caller(req)

\* C16 (as stated): every task in the answer of a task route has exactly the
\* fields id, title, description, status, priority, due_date, reminder_date,
\* is_reminder_sent, created_at and updated_at; the owner's identifier is not
\* among them.
C16_Original ==
    req.op \in TaskOps =>
        \A i \in DOMAIN res.rows :
            DOMAIN res.rows[i] =
                {"id", "title", "description", "status", "priority", "due_date",
                 "reminder_date", "is_reminder_sent", "created_at", "updated_at"}

\* C17: an UpdateTask that answers 400 or 404 leaves the tasks table as it
\* was, updated_at of every row included.
C17_FailedUpdateFrame ==
    [][(now' = now /\ req'.op = "update" /\ res'.code \in {400, 404}) =>
        /\ tasks' = tasks
        /\ taskSeq' = taskSeq
        /\ res'.rows = <<>>]_vars

C17_Witness ==
    /\ req.op = "update"
    /\ res.code = 400
    /\ \E t \in tasks : t.id = req.id /\ t.user_id = Caller(req) /\ t.updated_at < now

\* The hour a date field of a body stands for, NULL when the field is
\* omitted or empty.
C18_Hours(b, k) ==
    IF k \notin DOMAIN b \/ b[k] = "" THEN NULL
    ELSE CASE b[k] = DateNow -> 0
           [] b[k] = DateSoon -> 1
           [] b[k] = DateLater -> 25

\* C18: a successful UpdateTask replaces the row of the task by one with the
\* body's title without its surrounding blanks, the body's status, and the
\* body's description, due date, reminder date and priority, where an omitted
\* description is "", an omitted date is null and an omitted priority is
\* "medium" whatever the row held; updated_at is the time of the request;
\* id, owner, created_at and is_reminder_sent are the row's, and no other row
\* changes.
C18_FullReplace ==
    [][(now' = now /\ req'.op = "update" /\ res'.code = 200) =>
        \E old \in tasks, new \in tasks' :
            /\ old.id = req'.id
            /\ tasks' = (tasks \ {old}) \cup {new}
            /\ res'.rows = <<new>>
            /\ new.title = (IF req'.body.title = TitleB THEN <<"B">> ELSE req'.body.title)
            /\ new.description = (IF "description" \in DOMAIN req'.body
                                  THEN req'.body.description ELSE "")
            /\ new.status = req'.body.status
            /\ new.due_date = C18_Hours(req'.body, "due_date")
            /\ new.reminder_date = C18_Hours(req'.body, "reminder_date")
            /\ new.priority = (IF "priority" \notin DOMAIN req'.body \/ req'.body.priority = ""
                               THEN "medium" ELSE req'.body.priority)
            /\ new.updated_at = now
            /\ new.id = old.id
            /\ new.user_id = old.user_id
            /\ new.created_at = old.created_at
            /\ new.is_reminder_sent = old.is_reminder_sent]_vars

C18_Witness ==
    /\ req.op = "update"
    /\ req.body = [title |-> TitleB, status |-> "in-progress"]
    /\ res.code = 200
    /\ res.rows[1].title = <<"B">>
    /\ res.rows[1].due_date = NULL
    /\ res.rows[1].is_reminder_sent = TRUE
    /\ res.rows[1].created_at < res.rows[1].updated_at

\* C19: an UpdateTask by the owner with a body that passes the checks
\* succeeds whatever status the task is in and whatever status the body
\* names (the same one included), and leaves the task in the body's status:
\* no status is terminal and no direction is enforced.
C19_AnyTransition ==
    [][(/\ now' = now
        /\ req'.op = "update"
        /\ req'.body \in ValidUpdateBodies
        /\ \E t \in tasks : t.id = req'.id /\ t.user_id = Caller(req')) =>
            /\ res'.code = 200
            /\ \A t \in tasks : t.id = req'.id => t.status \in {"todo", "in-progress", "done"}
            /\ \E u \in tasks' : u.id = req'.id /\ u.status = req'.body.status]_vars

\* a task edited, hours after its creation, into todo, the status it was
\* created in
C19_Witness ==
    /\ req.op = "update"
    /\ req.body \in ValidUpdateBodies
    /\ res.code = 200
    /\ res.rows[1].status = "todo"
    /\ res.rows[1].created_at < res.rows[1].updated_at
    /\ res.rows[1] \in tasks

\* C20: when the task of an UpdateTask that passed its ownership SELECT is
\* deleted before its UPDATE runs, the UpdateTask answers 404 NotFound, not
\* 200 and not 500, and changes no table: the deleted task is not stored
\* again, then or later.
C20_DeleteDuringUpdate ==
    [][/\ \A id \in 1..taskSeq :
            (\A t \in tasks : t.id # id) => (\A t \in tasks' : t.id # id)
       /\ \A r \in inflight :
            (r \notin inflight' /\ \A t \in tasks : t.id # r.id) =>
                /\ req' = r
                /\ res' = Response(404, "Tache non trouvee ou non autorisee.")
                /\ tasks' = tasks]_vars

\* the task of a PUT in flight has just been deleted
C20_Witness ==
    /\ req.op = "delete"
    /\ res.code = 204
    /\ \E r \in inflight : r.id = req.id /\ \A t \in tasks : t.id # r.id

\* C21: when two valid UpdateTask requests of the owner on the same task are
\* in flight together, each UPDATE that finds the row answers 200 and leaves
\* in the row the title, description, status, due date, reminder date and
\* priority of its own request, none of them from the other request: the
\* stored fields are those of the request whose UPDATE ran last.
C21_LastWriterWins ==
    [][\A r \in inflight :
        (r \notin inflight' /\ \E t \in tasks : t.id = r.id) =>
            /\ req' = r
            /\ res'.code = 200
            /\ \E old \in tasks, new \in tasks' :
                /\ old.id = r.id
                /\ tasks' = (tasks \ {old}) \cup {new}
                /\ res'.rows = <<new>>
                /\ new.id = r.id
                /\ new.title = (IF r.body.title = TitleB THEN <<"B">> ELSE r.body.title)
                /\ new.description = (IF "description" \in DOMAIN r.body
                                      THEN r.body.description ELSE "")
                /\ new.status = r.body.status
                /\ new.due_date = C18_Hours(r.body, "due_date")
                /\ new.reminder_date = C18_Hours(r.body, "reminder_date")
                /\ new.priority = (IF "priority" \notin DOMAIN r.body \/ r.body.priority = ""
                                   THEN "medium" ELSE r.body.priority)]_vars

\* the UPDATE of one request has run while another request on the same task,
\* with another body, is past its SELECT
C21_Witness ==
    /\ req.op = "update"
    /\ res.code = 200
    /\ res.rows[1] \in tasks
    /\ \E r \in inflight : r.id = req.id /\ r.body # req.body

\* The task lists the client evaluates: the one it shows, the ones its
\* intervals hold, and the ones its fetches have brought.
C22_Lists ==
    {client.tasks} \cup { t.tasks : t \in client.intervals }
        \cup { k.res.rows : k \in { c \in client.calls : c.kind = "fetch" } }

\* The categories one pass owes a task at the present hour.
C22_Owed(t) ==
    IF t.status = "done" THEN {}
    ELSE (IF t.reminder_date # NULL /\ ~t.is_reminder_sent /\ t.reminder_date <= now
          THEN {"reminder"} ELSE {})
         \cup (IF t.due_date # NULL /\ t.due_date < now THEN {"overdue"} ELSE {})
         \cup (IF t.due_date # NULL /\ 0 < t.due_date - now /\ t.due_date - now <= 24
               THEN {"due-soon"} ELSE {})

\* C22: one evaluation pass over a task list emits, for each task of the
\* list, one notification of each category the task is owed and no other:
\* none for a done task, a reminder when the reminder date is set, not after
\* now and not flagged as sent, an overdue when the due date is before now, a
\* due-soon when it is after now by at most 24h; never overdue and due-soon
\* together.
C22_PassExact ==
    \A L \in C22_Lists :
        LET out == NewNotifications(L) IN
        /\ \A j \in DOMAIN out : \E i \in DOMAIN L :
               out[j].id = L[i].id /\ out[j].type \in C22_Owed(L[i])
        /\ \A i \in DOMAIN L, kind \in {"reminder", "overdue", "due-soon"} :
               Cardinality({ j \in DOMAIN out : out[j].id = L[i].id /\ out[j].type = kind })
                   = IF kind \in C22_Owed(L[i]) THEN 1 ELSE 0
        /\ \A i \in DOMAIN L : ~({"overdue", "due-soon"} \subseteq C22_Owed(L[i]))

\* a pass has emitted a reminder and an overdue for the same task
C22_Witness ==
    \E i, j \in DOMAIN client.notifications :
        /\ client.notifications[i].id = client.notifications[j].id
        /\ client.notifications[i].type = "reminder"
        /\ client.notifications[j].type = "overdue"

\* C23 (as stated): the working set holds at most one notification for each
\* pair of task identifier and category.
C23_Original ==
    \A i, j \in DOMAIN client.notifications :
        (/\ client.notifications[i].id = client.notifications[j].id
         /\ client.notifications[i].type = client.notifications[j].type) => i = j

\* C24 (as stated): dismissing a notification removes the entries of its task
\* and category and no other: the notifications of the task in another
\* category and the notifications of other tasks stay, in their order.
C24_Original ==
    [][(/\ client'.notifications # client.notifications
        /\ Len(client'.notifications) < Len(client.notifications)) =>
            \E i \in DOMAIN client.notifications :
                client'.notifications =
                    SelectSeq(client.notifications,
                              LAMBDA n : ~(n.id = client.notifications[i].id
                                           /\ n.type = client.notifications[i].type))]_vars

\* C25: an evaluation pass that adds to the working set leaves in it, for
\* every task of the client's list and every category whose condition holds
\* for the task, a notification of that task and category, whatever was
\* dismissed before: a notification dismissed while its condition holds is
\* back after the next pass.
C25_Reappears ==
    [][(/\ Len(client'.notifications) > Len(client.notifications)
        /\ SubSeq(client'.notifications, 1, Len(client.notifications)) = client.notifications) =>
            \A i \in DOMAIN client'.tasks : \A kind \in C22_Owed(client'.tasks[i]) :
                \E j \in (Len(client.notifications) + 1)..Len(client'.notifications) :
                    /\ client'.notifications[j].id = client'.tasks[i].id
                    /\ client'.notifications[j].type = kind]_vars

\* the reminder of a task of the list has been dismissed while its condition
\* holds, and an interval is there to evaluate the list again
C25_Witness ==
    /\ client.notifications = <<>>
    /\ \E i \in DOMAIN client.tasks : "reminder" \in C22_Owed(client.tasks[i])
    /\ \E t \in client.intervals : t.tasks = client.tasks

\* C26: the client has at most one polling timer at every moment and none
\* while the token is null, and no evaluation pass runs after logout: no
\* step taken while the token is null adds a notification.
C26_OneTimer ==
    /\ Cardinality(client.intervals) <= 1
    /\ client.token = NoToken => client.intervals = {}

C26_Original ==
    [][/\ C26_OneTimer
       /\ client.token = NoToken /\ client'.token = NoToken =>
              Len(client'.notifications) <= Len(client.notifications)]_vars

\* The continuation of a failed task fetch runs in this step. (A page load
\* drops the pending calls without running their continuations.)
C27_FailedFetchReceived(k) ==
    /\ k.kind = "fetch"
    /\ k.phase = "answered"
    /\ ~ResponseOk(k.res)
    /\ client'.calls = client.calls \ {k}
    /\ client' # Mount(client.localStorage)

C27_Outcome(k) ==
    IF k.res.code = 403
    THEN /\ client'.localStorage = NoToken
         /\ client'.token = NoToken
         /\ client'.user = NoUser
         /\ client'.tasks = <<>>
    ELSE /\ client'.localStorage = client.localStorage
         /\ client'.token = client.token

\* C27: when the continuation of the task fetch runs on a 403 answer, the
\* client is logged out: the stored token is removed, token and user are
\* null and the task list is empty; on any other failure of the fetch the
\* token and the stored token stay as they are.
C27_Original ==
    [][\A k \in client.calls : C27_FailedFetchReceived(k) => C27_Outcome(k)]_vars

\* The same while the client still holds the token the fetch was sent with.
C27_CurrentSession ==
    [][\A k \in client.calls :
          C27_FailedFetchReceived(k) /\ client.token = k.token => C27_Outcome(k)]_vars

\* C28: the authenticateToken middlewares of the two backend variants give
\* the same outcome (401, 403, or next() with the identity of the payload)
\* for the Authorization header of every request.
C28_Original ==
    authenticateToken_part000(req.header) = authenticateToken(req.header)

\* The rows the store holds for the user of the session
C29_Stored == { t \in tasks : t.user_id = client.user.id }

\* C29: once every call of the client has been answered and handled, none
\* of them with an error, the task list of the client holds exactly the rows
\* the store holds for its user, each once and with the stored values.
C29_Original ==
    (/\ client.token # NoToken
     /\ client.calls = {}
     /\ client.error = "") =>
        /\ { client.tasks[i] : i \in DOMAIN client.tasks } = C29_Stored
        /\ Len(client.tasks) = Cardinality(C29_Stored)

\* C30: every notification of the working set is about a task that the task
\* list of the client holds with a status other than done.
C30_Original ==
    \A j \in DOMAIN client.notifications :
        \E i \in DOMAIN client.tasks :
            /\ client.tasks[i].id = client.notifications[j].id
            /\ client.tasks[i].status # "done"

====
